---- MODULE Spec2Model ----
(***************************************************************************)
(* Attendance marking and reconciliation workflow of AttendanceTracker.    *)
(*                                                                         *)
(* The model follows components/attendance/attendance-table.tsx: the       *)
(* AttendanceTable component keeps the staged marks in the React state     *)
(* attendanceState (PendingSet), derives existingAttendance (CommittedSet) *)
(* from the data of the "/api/attendance" query, and flushes the staged    *)
(* marks with the bulk mutation.  The REST backend is not part of the      *)
(* repository; it is modelled as the collaborator the specification        *)
(* describes (createAttendanceBatch / fetchAttendance).                    *)
(*                                                                         *)
(* Two specifications are given.  Spec takes the handlers as the workspace *)
(* operations mark, markAllUnmarkedPresent and save: mark is invoked for   *)
(* any student and status and markAllUnmarkedPresent in any state, save in *)
(* any state in which no batch request is outstanding.  SpecUI invokes the *)
(* same handlers only through the controls the component renders, under    *)
(* the conditions under which it renders and enables them.  In both the    *)
(* table stands on its own: the optional prop onAttendanceChange is not    *)
(* set, the scope and the roster are fixed.                                *)
(*                                                                         *)
(* SpecPage is SpecUI on the Attendance page (unnamed/part_004): the page  *)
(* passes handleAttendanceStatsChange as onAttendanceChange and keeps the  *)
(* aggregate attendanceStats.  SpecScope is the table under a change of    *)
(* the date, SpecRoster the handlers under a roster that shrinks, and      *)
(* SpecStats applies handleAttendanceStatsChange to every argument of up   *)
(* to MaxCount marks.  The percentage is computed as the code computes it, *)
(* in IEEE 754 double arithmetic.                                          *)
(*                                                                         *)
(* The other pages have specifications of their own: SpecYears is the      *)
(* YearManagement component with its YearModal                             *)
(* (components/years/year-management.tsx), SpecAdmin the academic-years    *)
(* tab of the Admin page (unnamed/part_002), SpecReports the Reports page  *)
(* (pages/reports.tsx) and SpecReportsLive the Reports page when every     *)
(* fetch ends.  Dates are compared as the code compares them, through the  *)
(* time values of new Date(string).                                        *)
(***************************************************************************)
EXTENDS Integers, Sequences, FiniteSets, TLC

\* ---------------------------------------------------------------- bounds
NumStudents == 2
\* largest number of marks handed to handleAttendanceStatsChange in SpecStats
MaxCount == 40

\* ------------------------------------------------------ scope and roster
courseId == 1
academicYearId == 1

\* the students enrolled in the course when the page is opened
Students == 1..NumStudents
Status == {"present", "absent", "late"}

VARIABLES
    currentDate,      \* getCurrentDate() as the last render evaluated it
    students,         \* the students prop: data of the students query
    onAttendanceChange, \* the prop of the table: the page handler or none
    stats,            \* the argument of the last onAttendanceChange call
    attendanceStats   \* page: the aggregate shown

scopeVars == <<currentDate, students>>
statsVars == <<onAttendanceChange, stats, attendanceStats>>

\* one attendance record as saveAttendance builds it
Record(studentId, status) ==
    [studentId |-> studentId, courseId |-> courseId,
     academicYearId |-> academicYearId, date |-> currentDate,
     status |-> status, markedBy |-> "faculty"]

VARIABLES
    attendanceState,  \* PendingSet: function studentId -> status
    todayAttendance,  \* data of the attendance query: sequence of records
    existingAttendance, \* CommittedSet: the Map the last render built
    fetching,         \* a fetch of the attendance query is in flight
    mutations,        \* batch requests of the bulk mutation not yet settled
    isPending,        \* bulkAttendanceMutation.isPending
    serverRecords,    \* records persisted by the backend for the scope
    toast,            \* the toast the last step raised (NoToast: none)
    awaitingRefresh   \* records stored by saves whose refresh is outstanding

\* the result of the attendance query as the last render saw it
queryData == <<todayAttendance, existingAttendance>>

tableVars == <<attendanceState, queryData, fetching, mutations, isPending,
               serverRecords, toast, awaitingRefresh, scopeVars, statsVars>>

\* the academic years: the YearManagement component with its YearModal
\* (/years) and the academic-years tab of the Admin page (/admin)
VARIABLES
    years,            \* data of the "/api/academic-years" query
    yearsStatus,      \* that query: "loading", "fetching" or "idle"
    yearMutations,    \* requests of the year mutations not yet settled
    isModalOpen,      \* YearManagement: the modal is shown
    editingYear,      \* YearManagement: the year being edited, or Null
    yearForm,         \* YearModal: the values of the form
    yearFormErrors,   \* YearModal: the fields that carry an error
    yearToast         \* the toast the last step of these pages raised

yearsVars == <<years, yearsStatus, yearMutations, isModalOpen, editingYear,
               yearForm, yearFormErrors, yearToast>>

\* the Reports page (/reports)
VARIABLES
    reportForm,       \* the values of the report form
    reportFormErrors, \* the fields that carry an error
    isGenerating,     \* Reports.isGenerating
    generatedReport,  \* Reports.generatedReport, or Null
    generations,      \* calls of generateReport that have not returned
    reportToast       \* the toast the last step of the page raised

reportsVars == <<reportForm, reportFormErrors, isGenerating, generatedReport,
                 generations, reportToast>>

\* the state of the pages other than the Attendance page
pagesVars == <<yearsVars, reportsVars>>

vars == <<tableVars, pagesVars>>

\* ------------------------------------------------------------ Map helpers
EmptyMap == [s \in {} |-> "present"]

\* Map.set(key, value)
MapSet(m, k, v) == [x \in (DOMAIN m) \cup {k} |-> IF x = k THEN v ELSE m[x]]

\* new Map(records.map(r => [r.studentId, r.status])): a later record of the
\* list replaces an earlier one with the same studentId
RECURSIVE MapOfRecords(_)
MapOfRecords(recs) ==
    IF recs = <<>> THEN EmptyMap
    ELSE LET last == recs[Len(recs)]
         IN  MapSet(MapOfRecords(SubSeq(recs, 1, Len(recs) - 1)),
                    last.studentId, last.status)

\* getStudentStatus that prefers the committed record to the staged mark
getStudentStatus_CommittedFirst(studentId) ==
    IF studentId \in DOMAIN existingAttendance THEN existingAttendance[studentId]
    ELSE IF studentId \in DOMAIN attendanceState
         THEN attendanceState[studentId]
         ELSE "not-marked"

getStudentStatus(studentId) ==
    IF studentId \in DOMAIN attendanceState THEN attendanceState[studentId]
    ELSE IF studentId \in DOMAIN existingAttendance
         THEN existingAttendance[studentId]
         ELSE "not-marked"

\* isMarked that looks at the committed records only
isMarked_CommittedOnly(studentId) ==
    studentId \in DOMAIN existingAttendance

isMarked(studentId) ==
    studentId \in DOMAIN existingAttendance \/ studentId \in DOMAIN attendanceState

\* ----------------------------------------------------------------- toasts
NoToast == [title |-> "none", description |-> "", success |-> 0, errors |-> 0]
AlreadyMarkedToast ==
    [title |-> "Error",
     description |-> "Attendance already marked for this student today",
     success |-> 0, errors |-> 0]
NoChangesToast ==
    [title |-> "No Changes",
     description |-> "No new attendance records to save",
     success |-> 0, errors |-> 0]
SuccessToast(data) ==
    [title |-> "Success", description |-> "attendance records saved",
     success |-> data.success, errors |-> data.errors]
SaveErrorToast ==
    [title |-> "Error", description |-> "Failed to save bulk attendance",
     success |-> 0, errors |-> 0]

\* ------------------------------------------- IEEE 754 double arithmetic
\* A positive double is [bits, exp]: bits is the 53-bit significand, most
\* significant bit first, and exp is the binary exponent of bits[1].
MantissaBits == 53

RECURSIVE Pow2(_)
Pow2(n) == IF n = 0 THEN 1 ELSE 2 * Pow2(n - 1)

\* the quotient bits of r / t below the binary point, n of them
RECURSIVE QuotientBits(_, _, _)
QuotientBits(r, t, n) ==
    IF n = 0 THEN <<>>
    ELSE IF 2 * r >= t THEN <<1>> \o QuotientBits(2 * r - t, t, n - 1)
         ELSE <<0>> \o QuotientBits(2 * r, t, n - 1)

\* the remainder left after n quotient bits
RECURSIVE RemainderAfter(_, _, _)
RemainderAfter(r, t, n) ==
    IF n = 0 THEN r
    ELSE IF 2 * r >= t THEN RemainderAfter(2 * r - t, t, n - 1)
         ELSE RemainderAfter(2 * r, t, n - 1)

\* bits + 1, as a sequence one bit longer when the carry runs out at the top
RECURSIVE Increment(_)
Increment(bits) ==
    IF bits = <<>> THEN <<1>>
    ELSE LET n == Len(bits)
         IN  IF bits[n] = 0 THEN SubSeq(bits, 1, n - 1) \o <<1>>
             ELSE Increment(SubSeq(bits, 1, n - 1)) \o <<0>>

\* round to nearest, ties to even: kept are the bits kept, up says that the
\* dropped part is above one half, tie that it is exactly one half
RoundNearestEven(kept, exp, up, tie) ==
    IF up \/ (tie /\ kept[Len(kept)] = 1)
    THEN LET inc == Increment(kept)
         IN  IF Len(inc) > Len(kept)
             THEN [bits |-> SubSeq(inc, 1, Len(kept)), exp |-> exp + 1]
             ELSE [bits |-> inc, exp |-> exp]
    ELSE [bits |-> kept, exp |-> exp]

\* the least e with p * 2^e >= t
RECURSIVE Shift(_, _)
Shift(p, t) == IF p >= t THEN 0 ELSE 1 + Shift(2 * p, t)

\* the double p / t for integers 0 < p <= t
Divide(p, t) ==
    LET e    == Shift(p, t)
        r    == p * Pow2(e) - t
        kept == <<1>> \o QuotientBits(r, t, MantissaBits - 1)
        rem  == RemainderAfter(r, t, MantissaBits - 1)
    IN  RoundNearestEven(kept, -e, 2 * rem > t, 2 * rem = t)

\* bits * k for a small integer k, least significant bit first
RECURSIVE TimesLsb(_, _, _)
TimesLsb(lsb, k, carry) ==
    IF lsb = <<>>
    THEN IF carry = 0 THEN <<>> ELSE <<carry % 2>> \o TimesLsb(<<>>, k, carry \div 2)
    ELSE LET acc == Head(lsb) * k + carry
         IN  <<acc % 2>> \o TimesLsb(Tail(lsb), k, acc \div 2)

RECURSIVE Reverse(_)
Reverse(s) == IF s = <<>> THEN <<>> ELSE Reverse(Tail(s)) \o <<Head(s)>>

\* the double x * k
Times(x, k) ==
    LET prod    == Reverse(TimesLsb(Reverse(x.bits), k, 0))
        extra   == Len(prod) - MantissaBits
        kept    == SubSeq(prod, 1, MantissaBits)
        dropped == SubSeq(prod, MantissaBits + 1, Len(prod))
        half    == extra > 0 /\ dropped[1] = 1
        rest    == \E i \in 2..extra : dropped[i] = 1
    IN  RoundNearestEven(kept, x.exp + extra, half /\ rest, half /\ ~rest)

RECURSIVE ValueOf(_)
ValueOf(bits) ==
    IF bits = <<>> THEN 0
    ELSE 2 * ValueOf(SubSeq(bits, 1, Len(bits) - 1)) + bits[Len(bits)]

\* Math.round: the integer nearest to x, a half rounded up
MathRound(x) ==
    IF x.exp < -1 THEN 0
    ELSE ValueOf(SubSeq(x.bits, 1, x.exp + 1)) + x.bits[x.exp + 2]

\* Math.round((present / total) * 100) for 0 <= present <= total, total > 0;
\* 0 / total is 0
RoundedPercent ==
    [total \in 1..(MaxCount + 1) |->
        [present \in 0..total |->
            IF present = 0 THEN 0
            ELSE MathRound(Times(Divide(present, total), 100))]]

calculateAttendancePercentage(present, total) ==
    IF total = 0 THEN 0 ELSE RoundedPercent[total][present]

\* ------------------------------------------------- published aggregate
Undefined == "undefined"
ZeroStats == [present |-> 0, absent |-> 0, late |-> 0, percentage |-> 0]

CountStatus(m, st) == Cardinality({s \in DOMAIN m : m[s] = st})

\* the counts updateStats builds from the Map state it reads as
\* attendanceState and from existingAttendance: the values of both Maps
StatsOf(state) ==
    [present |-> CountStatus(state, "present") + CountStatus(existingAttendance, "present"),
     absent  |-> CountStatus(state, "absent") + CountStatus(existingAttendance, "absent"),
     late    |-> CountStatus(state, "late") + CountStatus(existingAttendance, "late")]

\* the page handler of onAttendanceChange
handleAttendanceStatsChange(s) ==
    /\ stats' = s
    /\ attendanceStats' =
          LET total == s.present + s.absent + s.late
          IN  [present |-> s.present, absent |-> s.absent, late |-> s.late,
               percentage |-> IF total > 0
                              THEN calculateAttendancePercentage(s.present, total)
                              ELSE 0]

\* onAttendanceChange?.(s)
Publish(s) ==
    /\ IF onAttendanceChange = Undefined
       THEN UNCHANGED <<stats, attendanceStats>>
       ELSE handleAttendanceStatsChange(s)
    /\ UNCHANGED onAttendanceChange

\* updateStats() of a render in which attendanceState is the Map state
updateStats(state) == Publish(StatsOf(state))

\* the Maps updateStats() can read as attendanceState after the updater
\* prev => new Map(prev.set(...)) was handed to setAttendanceState: before
\* is the Map of the render, after the Map with the new mark
SeenAfterSet(before, after) ==
    IF onAttendanceChange = Undefined THEN {before} ELSE {before, after}

\* --------------------------------------------------------------- handlers
\* markAttendance without the check of existingAttendance
markAttendance_NoCommittedCheck(studentId, status) ==
    /\ attendanceState' = MapSet(attendanceState, studentId, status)
    /\ toast' = NoToast
    /\ \E seen \in SeenAfterSet(attendanceState, attendanceState') :
          updateStats(seen)
    /\ UNCHANGED <<pagesVars, queryData, fetching, mutations, isPending,
                   serverRecords, awaitingRefresh, scopeVars>>

\* markAttendance that refuses a mark while a batch request is outstanding
markAttendance_LockedWhileSaving(studentId, status) ==
    /\ IF studentId \in DOMAIN existingAttendance \/ isPending
       THEN /\ toast' = AlreadyMarkedToast
            /\ attendanceState' = attendanceState
            /\ UNCHANGED statsVars
       ELSE /\ attendanceState' = MapSet(attendanceState, studentId, status)
            /\ toast' = NoToast
            /\ \E seen \in SeenAfterSet(attendanceState, attendanceState') :
                  updateStats(seen)
    /\ UNCHANGED <<pagesVars, queryData, fetching, mutations, isPending,
                   serverRecords, awaitingRefresh, scopeVars>>

\* markAttendance that also posts the record, as markAttendanceMutation
\* would
markAttendance_PostsRecord(studentId, status) ==
    /\ IF studentId \in DOMAIN existingAttendance
       THEN /\ toast' = AlreadyMarkedToast
            /\ attendanceState' = attendanceState
            /\ UNCHANGED <<statsVars, mutations>>
       ELSE /\ attendanceState' = MapSet(attendanceState, studentId, status)
            /\ toast' = NoToast
            /\ mutations' = Append(mutations, {Record(studentId, status)})
            /\ \E seen \in SeenAfterSet(attendanceState, attendanceState') :
                  updateStats(seen)
    /\ UNCHANGED <<pagesVars, queryData, fetching, isPending,
                   serverRecords, awaitingRefresh, scopeVars>>

\* The updater prev => new Map(prev.set(studentId, status)) changes the Map
\* of the current render in place.  React runs it inside setAttendanceState
\* when the component has no update queued and during the next render
\* otherwise, so the updateStats() that follows reads either the Map with the
\* new mark or the Map without it.
markAttendance(studentId, status) ==
    /\ IF studentId \in DOMAIN existingAttendance
       THEN /\ toast' = AlreadyMarkedToast
            /\ attendanceState' = attendanceState
            /\ UNCHANGED statsVars
       ELSE /\ attendanceState' = MapSet(attendanceState, studentId, status)
            /\ toast' = NoToast
            /\ \E seen \in SeenAfterSet(attendanceState, attendanceState') :
                  updateStats(seen)
    /\ UNCHANGED <<pagesVars, queryData, fetching, mutations, isPending,
                   serverRecords, awaitingRefresh, scopeVars>>

\* markAllPresent that starts from an empty Map and stages present for the
\* students that have neither a committed record nor a staged mark
AllPresentState_FromEmpty ==
    [s \in students \ (DOMAIN existingAttendance \cup DOMAIN attendanceState) |->
        "present"]

\* the state markAllPresent builds: present for every roster student that has
\* no committed record
AllPresentState ==
    [s \in (DOMAIN attendanceState) \cup (students \ DOMAIN existingAttendance) |->
        IF s \in students \ DOMAIN existingAttendance THEN "present"
        ELSE attendanceState[s]]

\* updateStats() reads the attendanceState of the render, not newState
markAllPresent ==
    /\ attendanceState' = AllPresentState
    /\ toast' = NoToast
    /\ updateStats(attendanceState)
    /\ UNCHANGED <<pagesVars, queryData, fetching, mutations, isPending,
                   serverRecords, awaitingRefresh, scopeVars>>

\* pendingRecords that drops the staged status
pendingRecords_AllPresent ==
    {Record(s, "present") : s \in DOMAIN attendanceState}

\* the records saveAttendance builds from the staged marks
pendingRecords ==
    {Record(s, attendanceState[s]) : s \in DOMAIN attendanceState}

\* saveAttendance without the check for an empty list of records
saveAttendance_NoEmptyCheck ==
    /\ mutations' = Append(mutations, pendingRecords)
    /\ isPending' = TRUE
    /\ toast' = NoToast
    /\ UNCHANGED <<pagesVars, attendanceState, queryData, fetching, serverRecords,
                   awaitingRefresh, scopeVars, statsVars>>

saveAttendance ==
    /\ IF pendingRecords = {}
       THEN /\ toast' = NoChangesToast
            /\ UNCHANGED <<mutations, isPending>>
       ELSE /\ mutations' = Append(mutations, pendingRecords)
            /\ isPending' = TRUE
            /\ toast' = NoToast
    /\ UNCHANGED <<pagesVars, attendanceState, queryData, fetching, serverRecords,
                   awaitingRefresh, scopeVars, statsVars>>

RemoveAt(seq, i) == SubSeq(seq, 1, i - 1) \o SubSeq(seq, i + 1, Len(seq))

\* isPending follows the mutation started last, which is the last element of
\* mutations for as long as it is not settled
PendingAfterSettle(i) == isPending /\ i # Len(mutations)

\* ---------------------------------------------------------------- backend
\* two records with the same key (student, course, academic year, date)
SameKey(a, b) ==
    /\ a.studentId = b.studentId
    /\ a.courseId = b.courseId
    /\ a.academicYearId = b.academicYearId
    /\ a.date = b.date

\* the stored records of the scope of the table
ScopeRecords ==
    {r \in serverRecords : /\ r.courseId = courseId
                           /\ r.academicYearId = academicYearId
                           /\ r.date = currentDate}

\* the list of records a fetch answers with
RECURSIVE SeqOfRecords(_)
SeqOfRecords(recs) ==
    IF recs = {} THEN <<>>
    ELSE LET r == CHOOSE x \in recs : \A y \in recs : x.studentId <= y.studentId
         IN  <<r>> \o SeqOfRecords(recs \ {r})

\* the records of a batch the backend can store: a record whose key is
\* already stored fails
Storable(records) ==
    {r \in records : \A x \in serverRecords : ~SameKey(x, r)}

\* createAttendanceBatch: the records ok of the batch are stored, the others
\* fail; the answer counts both
createAttendanceBatch(records, ok) ==
    [success |-> Cardinality(ok), errors |-> Cardinality(records) - Cardinality(ok)]

\* --------------------------------------------------- mutation callbacks
\* onSuccess that resets the staged marks only when no record failed
onSuccess_KeepsOnErrors(i) ==
    /\ i \in 1..Len(mutations)
    /\ \E ok \in SUBSET Storable(mutations[i]) :
          /\ serverRecords' = serverRecords \cup ok
          /\ toast' = SuccessToast(createAttendanceBatch(mutations[i], ok))
          /\ awaitingRefresh' = awaitingRefresh \cup ok
          /\ attendanceState' = IF ok = mutations[i] THEN EmptyMap
                                 ELSE attendanceState
    /\ fetching' = TRUE
    /\ updateStats(attendanceState)
    /\ isPending' = PendingAfterSettle(i)
    /\ mutations' = RemoveAt(mutations, i)
    /\ UNCHANGED <<pagesVars, queryData, scopeVars>>

\* the batch request i is answered and bulkAttendanceMutation.onSuccess runs:
\* invalidateQueries, updateStats() on the Maps of the render, then
\* setAttendanceState(new Map()) and the toast
onSuccess(i) ==
    /\ i \in 1..Len(mutations)
    /\ \E ok \in SUBSET Storable(mutations[i]) :
          /\ serverRecords' = serverRecords \cup ok
          /\ toast' = SuccessToast(createAttendanceBatch(mutations[i], ok))
          /\ awaitingRefresh' = awaitingRefresh \cup ok
    /\ fetching' = TRUE
    /\ updateStats(attendanceState)
    /\ attendanceState' = EmptyMap
    /\ isPending' = PendingAfterSettle(i)
    /\ mutations' = RemoveAt(mutations, i)
    /\ UNCHANGED <<pagesVars, queryData, scopeVars>>

\* onError that resets the staged marks as onSuccess does
onError_ClearsState(i) ==
    /\ i \in 1..Len(mutations)
    /\ toast' = SaveErrorToast
    /\ attendanceState' = EmptyMap
    /\ isPending' = PendingAfterSettle(i)
    /\ mutations' = RemoveAt(mutations, i)
    /\ UNCHANGED <<pagesVars, queryData, fetching, serverRecords, awaitingRefresh,
                   scopeVars, statsVars>>

\* the batch request i fails (transport or backend error) and
\* bulkAttendanceMutation.onError runs
onError(i) ==
    /\ i \in 1..Len(mutations)
    /\ toast' = SaveErrorToast
    /\ isPending' = PendingAfterSettle(i)
    /\ mutations' = RemoveAt(mutations, i)
    /\ UNCHANGED <<pagesVars, attendanceState, queryData, fetching, serverRecords,
                   awaitingRefresh, scopeVars, statsVars>>

\* fetchAttendance that drops the staged marks of the students for whom the
\* answer holds a record
fetchAttendance_PrunesPending ==
    /\ fetching
    /\ todayAttendance' = SeqOfRecords(ScopeRecords)
    /\ existingAttendance' = MapOfRecords(todayAttendance')
    /\ attendanceState' =
          [s \in DOMAIN attendanceState \ DOMAIN existingAttendance' |->
              attendanceState[s]]
    /\ fetching' = FALSE
    /\ awaitingRefresh' = {}
    /\ toast' = NoToast
    /\ UNCHANGED <<pagesVars, mutations, isPending, serverRecords,
                   scopeVars, statsVars>>

\* fetchAttendance: the fetch of the attendance query completes with the
\* records the backend holds for the scope
fetchAttendance ==
    /\ fetching
    /\ todayAttendance' = SeqOfRecords(ScopeRecords)
    /\ existingAttendance' = MapOfRecords(todayAttendance')
    /\ fetching' = FALSE
    /\ awaitingRefresh' = {}
    /\ toast' = NoToast
    /\ UNCHANGED <<pagesVars, attendanceState, mutations, isPending, serverRecords,
                   scopeVars, statsVars>>

\* ----------------------------------------------------------- rendered UI
\* the Present / Late / Absent buttons of a row of the roster
MarkButtonsRendered(studentId) == studentId \in students /\ ~isMarked(studentId)
MarkAllEnabled == ~isPending
\* the Save button disabled only while nothing is staged
SaveEnabled_IgnoresPending == ~(Cardinality(DOMAIN attendanceState) = 0)
SaveEnabled == ~(isPending \/ Cardinality(DOMAIN attendanceState) = 0)

ClickMark(studentId, status) ==
    MarkButtonsRendered(studentId) /\ markAttendance(studentId, status)
ClickMarkAllPresent == MarkAllEnabled /\ markAllPresent
ClickSave == SaveEnabled /\ saveAttendance

\* ------------------------------------------------------------------ page
\* the Load Attendance button
loadAttendance ==
    /\ attendanceStats' = ZeroStats
    /\ toast' = NoToast
    /\ UNCHANGED <<pagesVars, attendanceState, queryData, fetching, mutations, isPending,
                   serverRecords, awaitingRefresh, scopeVars,
                   onAttendanceChange, stats>>

\* A render after midnight: getCurrentDate() answers the next day, the key of
\* the attendance query changes, the query has no data for the new key and
\* fetches.  The component instance and its attendanceState stay.
renderNextDay ==
    /\ currentDate = "today"
    /\ currentDate' = "tomorrow"
    /\ todayAttendance' = <<>>
    /\ existingAttendance' = MapOfRecords(todayAttendance')
    /\ fetching' = TRUE
    /\ awaitingRefresh' = {}
    /\ toast' = NoToast
    /\ UNCHANGED <<pagesVars, attendanceState, mutations, isPending, serverRecords,
                   students, statsVars>>

\* The students query is fetched again and answers with the roster r, from
\* which students have been removed in the meantime.  The roster is not
\* empty, so the page keeps the table instance.
studentsRefetched(r) ==
    /\ r # {}
    /\ r \subseteq students
    /\ r # students
    /\ students' = r
    /\ toast' = NoToast
    /\ UNCHANGED <<pagesVars, attendanceState, queryData, fetching, mutations, isPending,
                   serverRecords, awaitingRefresh, currentDate, statsVars>>

\* --------------------------------------------------- bounds of the pages
NumYears == 2
MaxRequests == 2

\* ------------------------------------------------------ dates of the forms
\* The value of an <input type="date"> is the empty string or "yyyy-mm-dd";
\* it is written <<>> or <<yyyy, mm, dd>>.
Today == <<2025, 6, 30>>
DateInputValues == {<<>>, Today, <<2025, 7, 1>>}

\* the number of days from 1970-01-01 to the day y-m-d
MakeDay(y, m, d) ==
    LET yy == IF m <= 2 THEN y - 1 ELSE y
        era == yy \div 400
        yoe == yy - era * 400
        mp == IF m > 2 THEN m - 3 ELSE m + 9
        doy == (153 * mp + 2) \div 5 + d - 1
        doe == yoe * 365 + yoe \div 4 - yoe \div 100 + doy
    IN  era * 146097 + doe - 719468

\* new Date(string): a date-only string is midnight UTC of its day, any
\* string that is no date is the Invalid Date, whose time value is NaN.  The
\* time value is kept in days (it is this number times 86400000 ms).
InvalidDate == [valid |-> FALSE, time |-> 0]
NewDate(s) ==
    IF Len(s) = 3
    THEN [valid |-> TRUE, time |-> MakeDay(s[1], s[2], s[3])]
    ELSE InvalidDate

\* a >= b and a > b on Date objects: the comparison of the time values,
\* false as soon as one of them is NaN
DateGreaterEq(a, b) == a.valid /\ b.valid /\ a.time >= b.time
DateGreater(a, b) == a.valid /\ b.valid /\ a.time > b.time

\* a toast of the pages
PageToast(title, description) == [title |-> title, description |-> description]
NoPageToast == PageToast("none", "")
\* error.message of a failed request; the empty message stands for none
ErrorMessages == {"", "500: Internal Server Error"}
ErrorToast(message, fallback) ==
    PageToast("Error", IF message = "" THEN fallback ELSE message)

\* ---------------------------------------------------------- academic years
YearIds == 1..NumYears
NoYear == 0

\* the lists the "/api/academic-years" query can deliver, as the function
\* id -> isActive; at most one year is the active one
YearLists ==
    {y \in UNION {[D -> BOOLEAN] : D \in SUBSET YearIds} :
        Cardinality({i \in DOMAIN y : y[i]}) <= 1}

\* the name of an academic year as the sequence of its characters
Digits == {"0", "1", "2", "3", "4", "5", "6", "7", "8", "9"}
YearNames ==
    {<<>>, <<"2", "0", "2", "5">>, <<"2", "0", "2", "5", "-", "2", "6">>}

\* /^\d{4}-\d{2}$/
validateAcademicYear(yearName) ==
    /\ Len(yearName) = 7
    /\ \A i \in {1, 2, 3, 4, 6, 7} : yearName[i] \in Digits
    /\ yearName[5] = "-"

\* defaultValues of the form of YearModal, taken at its first render, when
\* editingYear is null (description and isActive have no part in the model)
EmptyYearForm == [name |-> <<>>, startDate |-> <<>>, endDate |-> <<>>]

\* the fields formSchema rejects: the form adds a rule for the name only,
\* the dates are strings without a rule of their own
formSchema(data) ==
    IF data.name # <<>> /\ validateAcademicYear(data.name) THEN {} ELSE {"name"}

YearRequest(method, id, data) == [method |-> method, id |-> id, data |-> data]

\* mutation.isPending of YearModal, activateYearMutation.isPending
ModalIsPending ==
    \E i \in 1..Len(yearMutations) : yearMutations[i].method \in {"POST", "PUT"}
ActivateIsPending ==
    \E i \in 1..Len(yearMutations) : yearMutations[i].method = "POST activate"

\* queryClient.invalidateQueries: the query is fetched again
InvalidateYears == IF yearsStatus = "loading" THEN "loading" ELSE "fetching"

yearsRefetched(data) ==
    /\ yearsStatus # "idle"
    /\ years' = data
    /\ yearsStatus' = "idle"
    /\ yearToast' = NoPageToast
    /\ UNCHANGED <<yearMutations, isModalOpen, editingYear, yearForm,
                   yearFormErrors, tableVars, reportsVars>>

\* YearManagement -----------------------------------------------------------
handleAddYear ==
    /\ editingYear' = NoYear
    /\ isModalOpen' = TRUE
    /\ yearToast' = NoPageToast
    /\ UNCHANGED <<years, yearsStatus, yearMutations, yearForm, yearFormErrors,
                   tableVars, reportsVars>>

handleEditYear(year) ==
    /\ editingYear' = year
    /\ isModalOpen' = TRUE
    /\ yearToast' = NoPageToast
    /\ UNCHANGED <<years, yearsStatus, yearMutations, yearForm, yearFormErrors,
                   tableVars, reportsVars>>

CannotDeleteToast ==
    PageToast("Error", "Cannot delete the active academic year")

\* confirmed: the answer of the user to confirm()
handleDeleteYear(year, confirmed) ==
    /\ IF years[year]
       THEN /\ yearToast' = CannotDeleteToast
            /\ UNCHANGED yearMutations
       ELSE IF confirmed
       THEN /\ yearMutations' =
                  Append(yearMutations, YearRequest("DELETE", year, EmptyYearForm))
            /\ yearToast' = NoPageToast
       ELSE /\ yearToast' = NoPageToast
            /\ UNCHANGED yearMutations
    /\ UNCHANGED <<years, yearsStatus, isModalOpen, editingYear, yearForm,
                   yearFormErrors, tableVars, reportsVars>>

handleActivateYear(year, confirmed) ==
    /\ IF confirmed
       THEN yearMutations' =
                Append(yearMutations, YearRequest("POST activate", year, EmptyYearForm))
       ELSE UNCHANGED yearMutations
    /\ yearToast' = NoPageToast
    /\ UNCHANGED <<years, yearsStatus, isModalOpen, editingYear, yearForm,
                   yearFormErrors, tableVars, reportsVars>>

\* the callbacks of activateYearMutation and deleteYearMutation
yearMutation_onSuccess(i, description) ==
    /\ yearMutations' = RemoveAt(yearMutations, i)
    /\ yearsStatus' = InvalidateYears
    /\ yearToast' = PageToast("Success", description)
    /\ UNCHANGED <<years, isModalOpen, editingYear, yearForm, yearFormErrors,
                   tableVars, reportsVars>>

yearMutation_onError(i, message, fallback) ==
    /\ yearMutations' = RemoveAt(yearMutations, i)
    /\ yearToast' = ErrorToast(message, fallback)
    /\ UNCHANGED <<years, yearsStatus, isModalOpen, editingYear, yearForm,
                   yearFormErrors, tableVars, reportsVars>>

activateYearMutation_onSuccess(i) ==
    /\ yearMutations[i].method = "POST activate"
    /\ yearMutation_onSuccess(i, "Academic year activated successfully")

activateYearMutation_onError(i) ==
    /\ yearMutations[i].method = "POST activate"
    /\ \E message \in ErrorMessages :
           yearMutation_onError(i, message, "Failed to activate academic year")

deleteYearMutation_onSuccess(i) ==
    /\ yearMutations[i].method = "DELETE"
    /\ yearMutation_onSuccess(i, "Academic year deleted successfully")

deleteYearMutation_onError(i) ==
    /\ yearMutations[i].method = "DELETE"
    /\ \E message \in ErrorMessages :
           yearMutation_onError(i, message, "Failed to delete academic year")

\* the cards and their buttons are rendered once the first fetch has
\* delivered; the dialog covers them while it is open
YearCardRendered(year) ==
    yearsStatus # "loading" /\ ~isModalOpen /\ year \in DOMAIN years
DeleteButtonRendered(year) == YearCardRendered(year) /\ ~years[year]
ActivateButtonEnabled(year) ==
    YearCardRendered(year) /\ ~years[year] /\ ~ActivateIsPending

ClickAddYear == yearsStatus # "loading" /\ ~isModalOpen /\ handleAddYear
ClickEditYear(year) == YearCardRendered(year) /\ handleEditYear(year)
ClickDeleteYear(year) ==
    /\ DeleteButtonRendered(year)
    /\ Len(yearMutations) < MaxRequests
    /\ \E confirmed \in BOOLEAN : handleDeleteYear(year, confirmed)
ClickActivateYear(year) ==
    /\ ActivateButtonEnabled(year)
    /\ Len(yearMutations) < MaxRequests
    /\ \E confirmed \in BOOLEAN : handleActivateYear(year, confirmed)

\* YearModal ----------------------------------------------------------------
\* an input of the form changes; the errors stay as the last submit left them
yearFormChange(field, value) ==
    /\ isModalOpen
    /\ yearForm[field] # value
    /\ yearForm' = [yearForm EXCEPT ![field] = value]
    /\ yearToast' = NoPageToast
    /\ UNCHANGED <<years, yearsStatus, yearMutations, isModalOpen, editingYear,
                   yearFormErrors, tableVars, reportsVars>>

EndDateError == {"endDate"}

YearModal_onSubmit(data) ==
    /\ IF DateGreaterEq(NewDate(data.startDate), NewDate(data.endDate))
       THEN /\ yearFormErrors' = EndDateError
            /\ UNCHANGED yearMutations
       ELSE /\ yearFormErrors' = {}
            /\ yearMutations' =
                  Append(yearMutations,
                         YearRequest(IF editingYear # NoYear THEN "PUT" ELSE "POST",
                                     editingYear, data))
    /\ yearToast' = NoPageToast
    /\ UNCHANGED <<years, yearsStatus, isModalOpen, editingYear, yearForm,
                   tableVars, reportsVars>>

\* form.handleSubmit(onSubmit) behind the submit button, which is disabled
\* while the mutation is pending
submitYearForm ==
    /\ isModalOpen
    /\ ~ModalIsPending
    /\ Len(yearMutations) < MaxRequests
    /\ IF formSchema(yearForm) # {}
       THEN /\ yearFormErrors' = formSchema(yearForm)
            /\ yearToast' = NoPageToast
            /\ UNCHANGED <<years, yearsStatus, yearMutations, isModalOpen,
                           editingYear, yearForm, tableVars, reportsVars>>
       ELSE YearModal_onSubmit(yearForm)

handleClose ==
    /\ isModalOpen
    /\ isModalOpen' = FALSE
    /\ yearForm' = EmptyYearForm
    /\ yearFormErrors' = {}
    /\ yearToast' = NoPageToast
    /\ UNCHANGED <<years, yearsStatus, yearMutations, editingYear,
                   tableVars, reportsVars>>

YearModal_onSuccess(i) ==
    /\ yearMutations[i].method \in {"POST", "PUT"}
    /\ yearMutations' = RemoveAt(yearMutations, i)
    /\ yearsStatus' = InvalidateYears
    /\ yearToast' =
          PageToast("Success",
                    IF editingYear # NoYear
                    THEN "Academic year updated successfully"
                    ELSE "Academic year created successfully")
    /\ isModalOpen' = FALSE
    /\ yearForm' = EmptyYearForm
    /\ yearFormErrors' = {}
    /\ UNCHANGED <<years, editingYear, tableVars, reportsVars>>

YearModal_onError(i) ==
    /\ yearMutations[i].method \in {"POST", "PUT"}
    /\ \E message \in ErrorMessages :
           yearMutation_onError(i, message,
                                IF editingYear # NoYear
                                THEN "Failed to update academic year"
                                ELSE "Failed to create academic year")

\* Admin, the academic-years tab --------------------------------------------
\* the delete button of a row of the table
Admin_deleteYear(year) ==
    /\ year \in DOMAIN years
    /\ Len(yearMutations) < MaxRequests
    /\ yearMutations' =
          Append(yearMutations, YearRequest("DELETE", year, EmptyYearForm))
    /\ yearToast' = NoPageToast
    /\ UNCHANGED <<years, yearsStatus, isModalOpen, editingYear, yearForm,
                   yearFormErrors, tableVars, reportsVars>>

Admin_deleteYear_onSuccess(i) ==
    yearMutation_onSuccess(i, "Academic year deleted successfully")

Admin_deleteYear_onError(i) ==
    \E message \in ErrorMessages :
        yearMutation_onError(i, message, "Failed to delete academic year")

\* the first render of the pages of the academic years: the first fetch of
\* the query is in flight, the modal is closed
YearsMount ==
    /\ years = [i \in {} |-> FALSE]
    /\ yearsStatus = "loading"
    /\ yearMutations = <<>>
    /\ isModalOpen = FALSE
    /\ editingYear = NoYear
    /\ yearForm = EmptyYearForm
    /\ yearFormErrors = {}
    /\ yearToast = NoPageToast

NextYears ==
    \/ ClickAddYear
    \/ \E year \in YearIds : ClickEditYear(year)
    \/ \E year \in YearIds : ClickDeleteYear(year)
    \/ \E year \in YearIds : ClickActivateYear(year)
    \/ \E field \in {"startDate", "endDate"}, value \in DateInputValues :
           yearFormChange(field, value)
    \/ \E value \in YearNames : yearFormChange("name", value)
    \/ submitYearForm
    \/ handleClose
    \/ \E i \in 1..Len(yearMutations) : YearModal_onSuccess(i)
    \/ \E i \in 1..Len(yearMutations) : YearModal_onError(i)
    \/ \E i \in 1..Len(yearMutations) : activateYearMutation_onSuccess(i)
    \/ \E i \in 1..Len(yearMutations) : activateYearMutation_onError(i)
    \/ \E i \in 1..Len(yearMutations) : deleteYearMutation_onSuccess(i)
    \/ \E i \in 1..Len(yearMutations) : deleteYearMutation_onError(i)
    \/ \E data \in YearLists : yearsRefetched(data)

NextAdmin ==
    \/ \E year \in YearIds : Admin_deleteYear(year)
    \/ \E i \in 1..Len(yearMutations) : Admin_deleteYear_onSuccess(i)
    \/ \E i \in 1..Len(yearMutations) : Admin_deleteYear_onError(i)
    \/ \E data \in YearLists : yearsRefetched(data)

\* ----------------------------------------------------------------- reports
MaxRecords == 3

\* defaultValues of the report form: no course and no year of study are
\* chosen, the academic years are not loaded yet, both dates are
\* getCurrentDate() (the report type always has a value and has no part in
\* the model)
DefaultReportForm ==
    [courseId |-> "", yearOfStudy |-> "", academicYearId |-> "",
     fromDate |-> Today, toDate |-> Today]

SelectFields == {"courseId", "yearOfStudy", "academicYearId"}
\* the items of the three selects
SelectItems ==
    [courseId |-> {"1"}, yearOfStudy |-> {"1st"}, academicYearId |-> {"1"}]

\* the fields reportFormSchema rejects: every field is required
reportFormSchema(data) ==
    {f \in SelectFields : data[f] = ""}
        \cup {f \in {"fromDate", "toDate"} : data[f] = <<>>}

\* the bodies the backend answers the two requests with
ResponseRecord(i) ==
    [date |-> IF i % 2 = 1 THEN Today ELSE <<2025, 7, 1>>,
     status |-> IF i % 3 = 1 THEN "present"
                ELSE IF i % 3 = 2 THEN "absent" ELSE "late"]
AttendanceResponses ==
    {[i \in 1..n |-> ResponseRecord(i)] : n \in 0..MaxRecords}
StudentResponses == {[i \in 1..n |-> i] : n \in 0..NumStudents}

\* how a fetch ends: with a response that is ok, with one that is not, or
\* rejected
FetchOutcomes == {"ok", "not ok", "rejected"}

NoReport ==
    [period |-> <<>>,
     summary |-> [totalStudents |-> 0, totalClasses |-> 0, present |-> 0,
                  absent |-> 0, late |-> 0, attendancePercentage |-> 0],
     details |-> <<>>]

CountRecords(records, status) ==
    Cardinality({i \in DOMAIN records : records[i].status = status})

\* reportData of generateReport (without the title)
ReportData(data, attendanceRecords, studentList) ==
    LET present == CountRecords(attendanceRecords, "present")
        absent == CountRecords(attendanceRecords, "absent")
        late == CountRecords(attendanceRecords, "late")
        totalMarked == present + absent + late
        uniqueDates == {attendanceRecords[i].date : i \in DOMAIN attendanceRecords}
    IN  [period |-> <<data.fromDate, data.toDate>>,
         summary |-> [totalStudents |-> Len(studentList),
                      totalClasses |-> Cardinality(uniqueDates),
                      present |-> present, absent |-> absent, late |-> late,
                      attendancePercentage |->
                          calculateAttendancePercentage(present, totalMarked)],
         details |-> attendanceRecords]

reportFormChange(field, value) ==
    /\ reportForm[field] # value
    /\ reportForm' = [reportForm EXCEPT ![field] = value]
    /\ reportToast' = NoPageToast
    /\ UNCHANGED <<reportFormErrors, isGenerating, generatedReport, generations,
                   tableVars, yearsVars>>

\* generateReport up to its first await: the attendance request is issued
generateReport(data) ==
    /\ isGenerating' = TRUE
    /\ generations' =
          Append(generations,
                 [data |-> data, awaits |-> "attendance", attendanceRecords |-> <<>>])
    /\ reportToast' = NoPageToast
    /\ UNCHANGED <<reportForm, generatedReport, tableVars, yearsVars>>

ToDateError == {"toDate"}

Reports_onSubmit_RejectsEqual(data) ==
    IF DateGreaterEq(NewDate(data.fromDate), NewDate(data.toDate))
    THEN /\ reportFormErrors' = ToDateError
         /\ reportToast' = NoPageToast
         /\ UNCHANGED <<reportForm, isGenerating, generatedReport, generations,
                        tableVars, yearsVars>>
    ELSE /\ reportFormErrors' = {}
         /\ generateReport(data)

Reports_onSubmit(data) ==
    IF DateGreater(NewDate(data.fromDate), NewDate(data.toDate))
    THEN /\ reportFormErrors' = ToDateError
         /\ reportToast' = NoPageToast
         /\ UNCHANGED <<reportForm, isGenerating, generatedReport, generations,
                        tableVars, yearsVars>>
    ELSE /\ reportFormErrors' = {}
         /\ generateReport(data)

\* form.handleSubmit(onSubmit) behind the Generate Report button, which is
\* disabled while isGenerating
submitReportForm ==
    /\ ~isGenerating
    /\ Len(generations) < MaxRequests
    /\ IF reportFormSchema(reportForm) # {}
       THEN /\ reportFormErrors' = reportFormSchema(reportForm)
            /\ reportToast' = NoPageToast
            /\ UNCHANGED <<reportForm, isGenerating, generatedReport,
                           generations, tableVars, yearsVars>>
       ELSE Reports_onSubmit(reportForm)

\* catch and finally of generateReport
generateReport_catch(i, description) ==
    /\ reportToast' = PageToast("Error", description)
    /\ isGenerating' = FALSE
    /\ generations' = RemoveAt(generations, i)
    /\ UNCHANGED <<reportForm, reportFormErrors, generatedReport,
                   tableVars, yearsVars>>

\* the attendance request ends: generateReport goes on to the students
\* request, or throws
generateReport_attendance(i, outcome, records) ==
    /\ generations[i].awaits = "attendance"
    /\ IF outcome = "ok"
       THEN /\ generations' =
                  [generations EXCEPT ![i].awaits = "students",
                                      ![i].attendanceRecords = records]
            /\ reportToast' = NoPageToast
            /\ UNCHANGED <<reportForm, reportFormErrors, isGenerating,
                           generatedReport, tableVars, yearsVars>>
       ELSE generateReport_catch(i, IF outcome = "not ok"
                                    THEN "Failed to fetch attendance data"
                                    ELSE "Failed to fetch")

\* the students request ends: generateReport sets the report, or throws
generateReport_students_SetsOnFailure(i, outcome, studentList) ==
    /\ generations[i].awaits = "students"
    /\ generatedReport' =
          ReportData(generations[i].data, generations[i].attendanceRecords,
                     studentList)
    /\ reportToast' = PageToast("Success", "Report generated successfully")
    /\ isGenerating' = FALSE
    /\ generations' = RemoveAt(generations, i)
    /\ UNCHANGED <<reportForm, reportFormErrors, tableVars, yearsVars>>

generateReport_students(i, outcome, studentList) ==
    /\ generations[i].awaits = "students"
    /\ IF outcome = "ok"
       THEN /\ generatedReport' =
                  ReportData(generations[i].data,
                             generations[i].attendanceRecords, studentList)
            /\ reportToast' = PageToast("Success", "Report generated successfully")
            /\ isGenerating' = FALSE
            /\ generations' = RemoveAt(generations, i)
            /\ UNCHANGED <<reportForm, reportFormErrors, tableVars, yearsVars>>
       ELSE generateReport_catch(i, IF outcome = "not ok"
                                    THEN "Failed to fetch students data"
                                    ELSE "Failed to fetch")

ReportsMount ==
    /\ reportForm = DefaultReportForm
    /\ reportFormErrors = {}
    /\ isGenerating = FALSE
    /\ generatedReport = NoReport
    /\ generations = <<>>
    /\ reportToast = NoPageToast

AttendanceFetchEnds ==
    \E i \in 1..Len(generations), outcome \in FetchOutcomes :
        \E records \in (IF outcome = "ok" THEN AttendanceResponses ELSE {<<>>}) :
            generateReport_attendance(i, outcome, records)

StudentsFetchEnds ==
    \E i \in 1..Len(generations), outcome \in FetchOutcomes :
        \E studentList \in (IF outcome = "ok" THEN StudentResponses ELSE {<<>>}) :
            generateReport_students(i, outcome, studentList)

NextReports ==
    \/ \E field \in SelectFields :
           \E value \in SelectItems[field] : reportFormChange(field, value)
    \/ \E field \in {"fromDate", "toDate"}, value \in DateInputValues :
           reportFormChange(field, value)
    \/ submitReportForm
    \/ AttendanceFetchEnds
    \/ StudentsFetchEnds

\* ----------------------------------------------------------- initial state
\* the table is mounted for a scope for which the backend holds no record
\* yet; the first fetch of the attendance query is in flight
Mount ==
    /\ attendanceState = EmptyMap
    /\ todayAttendance = <<>>
    /\ existingAttendance = MapOfRecords(todayAttendance)
    /\ fetching = TRUE
    /\ mutations = <<>>
    /\ isPending = FALSE
    /\ serverRecords = {}
    /\ toast = NoToast
    /\ awaitingRefresh = {}
    /\ currentDate = "today"
    /\ students = Students
    /\ attendanceStats = ZeroStats

\* the table on its own: no onAttendanceChange prop
Init ==
    /\ Mount
    /\ YearsMount
    /\ ReportsMount
    /\ onAttendanceChange = Undefined
    /\ stats = [present |-> 0, absent |-> 0, late |-> 0]

Environment ==
    \/ \E i \in 1..Len(mutations) : onSuccess(i)
    \/ \E i \in 1..Len(mutations) : onError(i)
    \/ fetchAttendance

Next ==
    \/ \E s \in Students, st \in Status : markAttendance(s, st)
    \/ markAllPresent
    \/ (~isPending /\ saveAttendance)
    \/ Environment

Spec == Init /\ [][Next]_vars

NextUI ==
    \/ \E s \in Students, st \in Status : ClickMark(s, st)
    \/ ClickMarkAllPresent
    \/ ClickSave
    \/ Environment

SpecUI == Init /\ [][NextUI]_vars

\* the Attendance page with the table: onAttendanceChange is
\* handleAttendanceStatsChange
InitPage ==
    /\ Mount
    /\ YearsMount
    /\ ReportsMount
    /\ onAttendanceChange = "handleAttendanceStatsChange"
    /\ stats = [present |-> 0, absent |-> 0, late |-> 0]

NextPage ==
    \/ \E s \in Students, st \in Status : ClickMark(s, st)
    \/ ClickMarkAllPresent
    \/ ClickSave
    \/ Environment
    \/ loadAttendance

SpecPage == InitPage /\ [][NextPage]_vars

\* the table on its own under a change of the date; the marks are staged
\* with the Present and the Absent button
NextScope ==
    \/ \E s \in Students, st \in {"present", "absent"} : ClickMark(s, st)
    \/ ClickSave
    \/ Environment
    \/ renderNextDay

SpecScope == Init /\ [][NextScope]_vars

\* the handlers of the table on the page under a roster that shrinks
NextRoster ==
    \/ \E s \in Students, st \in Status : markAttendance(s, st)
    \/ markAllPresent
    \/ fetchAttendance
    \/ \E r \in SUBSET Students : studentsRefetched(r)

SpecRoster == InitPage /\ [][NextRoster]_vars

\* handleAttendanceStatsChange on its own, for every argument with at most
\* MaxCount marks
StatsInputs ==
    {s \in [present : 0..MaxCount, absent : 0..MaxCount, late : 0..MaxCount] :
        s.present + s.absent + s.late <= MaxCount}

InitStats ==
    /\ Mount
    /\ YearsMount
    /\ ReportsMount
    /\ onAttendanceChange = "handleAttendanceStatsChange"
    /\ stats \in StatsInputs

NextStats ==
    \/ /\ handleAttendanceStatsChange(stats)
       /\ toast' = NoToast
       /\ UNCHANGED <<pagesVars, attendanceState, queryData, fetching, mutations, isPending,
                      serverRecords, awaitingRefresh, scopeVars,
                      onAttendanceChange>>
    \/ loadAttendance

SpecStats == InitStats /\ [][NextStats]_vars

\* the YearManagement component with its YearModal
SpecYears == Init /\ [][NextYears]_vars

\* the academic-years tab of the Admin page
SpecAdmin == Init /\ [][NextAdmin]_vars

\* the Reports page
SpecReports == Init /\ [][NextReports]_vars

\* the Reports page when every fetch ends: with a response or rejected
SpecReportsLive ==
    /\ SpecReports
    /\ WF_vars(AttendanceFetchEnds)
    /\ WF_vars(StudentsFetchEnds)

\* ------------------------------------------------------------- properties
CommittedSet == DOMAIN existingAttendance
PendingSet == DOMAIN attendanceState

\* students for whom a batch save has succeeded or a committed record exists
SavedStudents == CommittedSet \cup {r.studentId : r \in awaitingRefresh}

\* C1: in every reachable state no studentId has an entry in both
\* CommittedSet (existingAttendance) and PendingSet (attendanceState).
C1_AtMostOneSet == CommittedSet \cap PendingSet = {}

\* C2: the client never submits a record for a student for whom an earlier
\* batch save already succeeded or a committed record already exists.
C2_NoSecondRecord ==
    [][Len(mutations') > Len(mutations) =>
         \A r \in mutations'[Len(mutations')] : r.studentId \notin SavedStudents]_vars

\* C3: mark(studentId, status) on a student in CommittedSet leaves PendingSet
\* unchanged and reports the DuplicateMark rejection.
C3_CommittedMarkRejected ==
    [][\A s \in CommittedSet, st \in Status :
          markAttendance(s, st) =>
              (attendanceState' = attendanceState /\ toast' = AlreadyMarkedToast)]_vars

C3_Witness ==
    /\ toast = AlreadyMarkedToast
    /\ CommittedSet # {}
    /\ \E s \in Students : s \notin CommittedSet /\ s \in PendingSet

C5_MarkAllOnlyUnmarked ==
    [][markAllPresent =>
         attendanceState' =
            [s \in PendingSet \cup {x \in Students : ~isMarked(x)} |->
                IF s \in PendingSet THEN attendanceState[s] ELSE "present"]]_vars

\* C6: a successful save clears PendingSet and requests a refresh of
\* CommittedSet, and once the refresh has completed statusOf(s) is the saved
\* status for every student s of the saved batch.
C6_SavedStatusAfterRefresh ==
    [][/\ \A i \in 1..Len(mutations) :
             onSuccess(i) => (attendanceState' = EmptyMap /\ fetching')
       /\ fetchAttendance =>
             \A r \in awaitingRefresh : getStudentStatus(r.studentId)' = r.status]_vars

\* C7: the failure of a batch request changes no PendingSet entry, surfaces
\* the error, and leaves the marks of the failed batch staged with the Save
\* control enabled, so that a later save submits them again.
C7_FailedSaveKeepsPending ==
    [][\A i \in 1..Len(mutations) :
          onError(i) =>
              /\ attendanceState' = attendanceState
              /\ toast' = SaveErrorToast
              /\ mutations[i] \subseteq pendingRecords'
              /\ SaveEnabled']_vars

C7_Witness ==
    /\ toast = SaveErrorToast
    /\ Cardinality(PendingSet) = NumStudents
    /\ \E s \in PendingSet : attendanceState[s] # "present"
    /\ mutations = <<>>

\* C8: at most one batch save request is in flight at any time.
C8_OneSaveInFlight == Len(mutations) <= 1

C8_Witness ==
    /\ Len(mutations) = 1
    /\ isPending
    /\ PendingSet # {}
    /\ pendingRecords # mutations[1]

\* C9: save with an empty PendingSet reports "nothing to save", issues no
\* request and changes no state.
C9_EmptySaveNoRequest ==
    [][(saveAttendance /\ PendingSet = {}) =>
          /\ toast' = NoChangesToast
          /\ UNCHANGED <<attendanceState, queryData, fetching, mutations,
                         isPending, serverRecords, awaitingRefresh,
                         scopeVars, statsVars, pagesVars>>]_vars

C9_Witness == toast = NoChangesToast /\ PendingSet = {} /\ CommittedSet # {}

\* C10: save with a non-empty PendingSet issues exactly one batch request
\* with one record per pending student, carrying the staged status and the
\* courseId, academicYearId and current date of the workspace.
C10_BatchIsPendingSet ==
    [][(saveAttendance /\ PendingSet # {}) =>
          /\ Len(mutations') = Len(mutations) + 1
          /\ SubSeq(mutations', 1, Len(mutations)) = mutations
          /\ LET batch == mutations'[Len(mutations')]
             IN  /\ Cardinality(batch) = Cardinality(PendingSet)
                 /\ \A r \in batch : r.studentId \in PendingSet
                 /\ \A s \in PendingSet :
                       \E r \in batch :
                          /\ r.studentId = s
                          /\ r.status = attendanceState[s]
                          /\ r.courseId = courseId
                          /\ r.academicYearId = academicYearId
                          /\ r.date = currentDate]_vars

C10_Witness ==
    /\ Len(mutations) = 1
    /\ Cardinality(mutations[1]) = NumStudents
    /\ \E r1, r2 \in mutations[1] : r1.status # r2.status

\* C14: when the backend answers a batch save with some records failed
\* (errors > 0), PendingSet is still cleared completely and the toast carries
\* the succeeded and the failed count of the answer.
C14_PartialFailureClears ==
    [][\A i \in 1..Len(mutations) :
          (/\ onSuccess(i)
           /\ Cardinality(serverRecords' \ serverRecords) < Cardinality(mutations[i])) =>
              /\ attendanceState' = EmptyMap
              /\ toast'.title = "Success"
              /\ toast'.success = Cardinality(serverRecords' \ serverRecords)
              /\ toast'.errors = Cardinality(mutations[i]) - toast'.success
              /\ toast'.errors > 0]_vars

C14_Witness ==
    /\ toast.title = "Success"
    /\ toast.errors > 0
    /\ toast.success > 0
    /\ PendingSet = {}

\* C15: while a batch save is outstanding, mark on a student who is not yet
\* marked is accepted and adds that student with the chosen status to
\* PendingSet, leaving the other staged marks as they are.
C15_MarkDuringSave ==
    [][\A s \in Students, st \in Status :
          (isPending /\ ~isMarked(s) /\ markAttendance(s, st)) =>
              /\ attendanceState' = MapSet(attendanceState, s, st)
              /\ toast' = NoToast]_vars

C15_Witness ==
    /\ isPending
    /\ Len(mutations) = 1
    /\ toast = NoToast
    /\ \E s \in PendingSet \ CommittedSet :
          s \notin {r.studentId : r \in mutations[1]}

\* C17: a mark on a student who is unmarked makes isMarked true for that
\* student and changes it for no other student, so a sequence of such marks
\* leaves isMarked true for exactly the students marked plus those marked
\* before; afterwards isMarked(x) holds iff x has an entry in CommittedSet
\* or in PendingSet.
C17_MarkedExactly ==
    [][\A s \in Students, st \in Status :
          (~isMarked(s) /\ markAttendance(s, st)) =>
              /\ {x \in Students : isMarked(x)'} =
                    {x \in Students : isMarked(x)} \cup {s}
              /\ \A x \in Students :
                    isMarked(x)' <=> (x \in CommittedSet' \/ x \in PendingSet')]_vars

C17_Witness ==
    /\ toast = NoToast
    /\ ~isPending
    /\ CommittedSet # {}
    /\ PendingSet # {}
    /\ CommittedSet \cap PendingSet = {}
    /\ \A x \in Students : isMarked(x)

\* C18: statusOf(studentId) is the staged status when the student has a
\* PendingSet entry, otherwise the committed status when the student has a
\* CommittedSet entry, otherwise not-marked.  getStudentStatus is a function
\* of the state and assigns nothing.
C18_StatusOf ==
    \A s \in Students :
        /\ s \in PendingSet => getStudentStatus(s) = attendanceState[s]
        /\ (s \notin PendingSet /\ s \in CommittedSet) =>
               getStudentStatus(s) = existingAttendance[s]
        /\ (s \notin PendingSet /\ s \notin CommittedSet) =>
               getStudentStatus(s) = "not-marked"

C18_Witness ==
    \E s, t \in Students :
        /\ s \in PendingSet \cap CommittedSet
        /\ attendanceState[s] # existingAttendance[s]
        /\ getStudentStatus(s) = attendanceState[s]
        /\ t \in CommittedSet \ PendingSet
        /\ getStudentStatus(t) = existingAttendance[t]

\* C20: markAllUnmarkedPresent is idempotent: the state a second call builds
\* right after a first call is the state the first call has set.
C20_MarkAllIdempotent ==
    [][markAllPresent => AllPresentState' = attendanceState']_vars

C20_Witness ==
    /\ toast = NoToast
    /\ attendanceState = AllPresentState
    /\ CommittedSet # {}
    /\ PendingSet # {}
    /\ PendingSet = Students \ CommittedSet

\* C11: after every mark and every markAllUnmarkedPresent the aggregate
\* handed to onAttendanceChange equals the counts of present, absent and late
\* over the union of CommittedSet and the PendingSet the operation leaves (a
\* student of both sets counted once, with the status statusOf answers).
C11_PublishedAggregate ==
    [][((\E s \in Students, st \in Status : ClickMark(s, st))
           \/ ClickMarkAllPresent) =>
          \A st \in Status :
              stats'[st] =
                 Cardinality({s \in CommittedSet' \cup PendingSet' :
                                 getStudentStatus(s)' = st})]_vars

\* C12: after the scope of the attendance page has changed (here: the date)
\* PendingSet is empty, so no mark staged under the previous scope is shown
\* or saved under the new one.
C12_ScopeChangeClearsPending ==
    [][currentDate' # currentDate => PendingSet' = {}]_vars

\* C13: a mark for a studentId outside the loaded roster is rejected with no
\* state change, and PendingSet holds no student outside the current roster,
\* also after the roster has changed.
C13_PendingWithinRoster ==
    [][/\ \A s \in Students \ students, st \in Status :
             markAttendance(s, st) => attendanceState' = attendanceState
       /\ PendingSet' \subseteq students']_vars

\* C16: the completion of a batch save that was started before the scope
\* changed is discarded: it changes neither PendingSet nor the aggregate the
\* page shows.
C16_StaleCompletionDiscarded ==
    [][\A i \in 1..Len(mutations) :
          (/\ \E r \in mutations[i] : r.date # currentDate
           /\ onSuccess(i) \/ onError(i)) =>
              UNCHANGED <<attendanceState, attendanceStats>>]_vars

\* C19: the percentage the page shows is present / (present + absent + late)
\* times 100 rounded to the nearest integer with halves rounded up, 0 when no
\* mark is counted, and lies in 0..100; it is a function of the three counts
\* only.
C19_Percentage ==
    LET present == attendanceStats.present
        total   == attendanceStats.present + attendanceStats.absent
                     + attendanceStats.late
    IN  /\ attendanceStats.percentage \in 0..100
        /\ attendanceStats.percentage =
              IF total = 0 THEN 0
              ELSE (200 * present + total) \div (2 * total)

\* C21: mark and markAllUnmarkedPresent only stage locally: they issue no
\* request and leave CommittedSet and the stored records unchanged; a step
\* that issues a batch request is a save.
C21_MarkStagesLocally ==
    [][/\ ((\E s \in Students, st \in Status : markAttendance(s, st))
              \/ markAllPresent) =>
             UNCHANGED <<mutations, isPending, serverRecords, queryData, fetching>>
       /\ Len(mutations') > Len(mutations) => saveAttendance]_vars

C21_Witness ==
    /\ PendingSet = Students
    /\ CommittedSet = {}
    /\ mutations = <<>>
    /\ serverRecords = {}
    /\ ~fetching
    /\ toast = NoToast

\* C22: PendingSet is modified only by mark, markAllUnmarkedPresent and the
\* completion of a successful save; a refresh of CommittedSet neither adds,
\* removes nor changes a PendingSet entry.
C22_PendingFrame ==
    [][/\ attendanceState' # attendanceState =>
             \/ \E s \in Students, st \in Status : markAttendance(s, st)
             \/ markAllPresent
             \/ \E i \in 1..Len(mutations) : onSuccess(i)
       /\ fetchAttendance => attendanceState' = attendanceState]_vars

C22_Witness ==
    /\ ~fetching
    /\ toast = NoToast
    /\ mutations = <<>>
    /\ \E s \in PendingSet \cap CommittedSet :
          attendanceState[s] # existingAttendance[s]

\* C23: every entry that the completion of a successful save removes from
\* PendingSet was part of the batch this save submitted, so a mark staged
\* while the save was outstanding is not discarded unsubmitted.
C23_OnlySubmittedRemoved ==
    [][\A i \in 1..Len(mutations) :
          onSuccess(i) =>
              \A s \in PendingSet \ PendingSet' :
                  \E r \in mutations[i] :
                      r.studentId = s /\ r.status = attendanceState[s]]_vars

\* C24: within one scope a student for whom isMarked is true stays marked:
\* no step makes isMarked false again, so the mark buttons of the student
\* are not rendered again.
C24_MarkedStaysMarked ==
    [][\A s \in Students : isMarked(s) => isMarked(s)']_vars

\* C25: whenever no fetch and no batch request is outstanding, the aggregate
\* the page shows equals the counts of present, absent and late over the
\* union of CommittedSet and PendingSet (a student of both sets counted once,
\* with the status statusOf answers).
C25_IdleAggregate ==
    (~fetching /\ mutations = <<>>) =>
        \A st \in Status :
            attendanceStats[st] =
               Cardinality({s \in CommittedSet \cup PendingSet :
                               getStudentStatus(s) = st})

\* C26: the aggregate the page shows counts no more marks than the roster
\* has students, so Present: n/roster size never shows n above the roster
\* size.
C26_AggregateWithinRoster ==
    /\ attendanceStats.present + attendanceStats.absent + attendanceStats.late
          <= Cardinality(students)
    /\ attendanceStats.present <= Cardinality(students)
\* the start date of the form values is a date before their end date
StartBeforeEnd(data) ==
    /\ NewDate(data.startDate).valid
    /\ NewDate(data.endDate).valid
    /\ NewDate(data.startDate).time < NewDate(data.endDate).time

\* C27: YearModal submits a create or update request only when the start
\* date is strictly before the end date; a submit of a form that passes the
\* schema with a start date that is not before the end date sets the error
\* on the end-date field and issues no request.
C27_DateOrderChecked ==
    [][/\ Len(yearMutations') > Len(yearMutations) =>
             LET request == yearMutations'[Len(yearMutations')]
             IN  request.method \in {"POST", "PUT"} => StartBeforeEnd(request.data)
       /\ (submitYearForm /\ formSchema(yearForm) = {} /\ ~StartBeforeEnd(yearForm)) =>
             /\ yearFormErrors' = EndDateError
             /\ UNCHANGED yearMutations]_vars

\* the day a is before the day b in the calendar
CalendarBefore(a, b) ==
    \/ a[1] < b[1]
    \/ a[1] = b[1] /\ a[2] < b[2]
    \/ a[1] = b[1] /\ a[2] = b[2] /\ a[3] < b[3]

\* C28: the report form starts a generation only for a from date that is
\* not after the to date: a submit with from after to sets the error on the
\* to-date field and starts nothing, a submit with from equal to or before
\* to starts the generation for the values of the form.
C28_DateRangeChecked ==
    [][/\ Len(generations') > Len(generations) =>
             LET data == generations'[Len(generations')].data
             IN  /\ data.fromDate # <<>> /\ data.toDate # <<>>
                 /\ ~CalendarBefore(data.toDate, data.fromDate)
       /\ (submitReportForm /\ reportFormSchema(reportForm) = {}) =>
             IF CalendarBefore(reportForm.toDate, reportForm.fromDate)
             THEN /\ reportFormErrors' = ToDateError
                  /\ UNCHANGED <<generations, isGenerating, generatedReport>>
             ELSE /\ Len(generations') = Len(generations) + 1
                  /\ generations'[Len(generations')].data = reportForm
                  /\ generations'[Len(generations')].awaits = "attendance"]_vars

\* a submit with from after to was rejected
C28_Witness ==
    /\ reportFormErrors = ToDateError
    /\ reportFormSchema(reportForm) = {}
    /\ CalendarBefore(reportForm.toDate, reportForm.fromDate)
    /\ generations = <<>>

\* C29: no DELETE request is issued for an academic year that is the active
\* one: the delete action of a page answers it with the toast "Cannot
\* delete the active academic year" and issues nothing.
C29_NoDeleteOfActiveYear ==
    [][/\ Len(yearMutations') > Len(yearMutations) =>
             LET request == yearMutations'[Len(yearMutations')]
             IN  request.method = "DELETE" => ~years[request.id]
       /\ \A year \in DOMAIN years :
             (years[year] /\ Admin_deleteYear(year)) =>
                 /\ yearToast' = CannotDeleteToast
                 /\ UNCHANGED yearMutations]_vars

\* what a step of a generation does to the report, the toast and
\* isGenerating
C30_GenerationStep ==
    /\ \A i \in 1..Len(generations), outcome \in FetchOutcomes :
          /\ \A records \in AttendanceResponses :
                generateReport_attendance(i, outcome, records) =>
                    /\ UNCHANGED generatedReport
                    /\ outcome # "ok" =>
                          /\ reportToast'.title = "Error"
                          /\ ~isGenerating'
                          /\ generations' = <<>>
          /\ \A studentList \in StudentResponses :
                generateReport_students(i, outcome, studentList) =>
                    /\ ~isGenerating'
                    /\ generations' = <<>>
                    /\ IF outcome = "ok"
                       THEN /\ generatedReport' =
                                  ReportData(generations[i].data,
                                             generations[i].attendanceRecords,
                                             studentList)
                            /\ reportToast'.title = "Success"
                       ELSE /\ UNCHANGED generatedReport
                            /\ reportToast'.title = "Error"
    /\ generatedReport' # generatedReport =>
          /\ generations # <<>>
          /\ generations[1].awaits = "students"
          /\ generations' = <<>>

\* at most one generation is in flight, and isGenerating tells it
C30_OneGeneration ==
    /\ Len(generations) <= 1
    /\ isGenerating <=> generations # <<>>

\* C30: a generation sets generatedReport only when the attendance fetch
\* and the students fetch both succeed, and then to the report of the two
\* responses; when a fetch fails generatedReport stays as it is and an
\* error toast is raised; the end of a generation sets isGenerating to
\* false, isGenerating is true exactly while a generation is in flight, at
\* most one is in flight, and isGenerating always returns to false.
C30_ReportGeneration ==
    /\ [][C30_GenerationStep]_vars
    /\ []C30_OneGeneration
    /\ (isGenerating ~> ~isGenerating)

\* a generation failed while a report was displayed
C30_Witness ==
    /\ generatedReport # NoReport
    /\ generatedReport.details # <<>>
    /\ reportToast.title = "Error"
    /\ ~isGenerating
    /\ generations = <<>>

====
